---- MODULE Spec2Model ----
(***************************************************************************)
(* Model of the UBELEZA backend (src/backend/app.py, models.py): a Flask   *)
(* API over four tables (current_cycle, earnings, expenses, archives).     *)
(* Each request handler is one atomic action; the state is the committed   *)
(* content of the tables plus the last request and its response.           *)
(*                                                                         *)
(* Money is Numeric(10, 2): a value is represented by its amount in        *)
(* hundredths (an integer).  to_dict converts money with float(); for      *)
(* values of at most 10 significant digits the conversion Decimal ->       *)
(* double -> JSON number is one-to-one, so a serialized amount is          *)
(* represented by the same number of hundredths.                           *)
(* The store is PostgreSQL (JSONB column): ids come from sequences and     *)
(* are never reused.                                                       *)
(***************************************************************************)
EXTENDS Integers, Sequences, FiniteSets, TLC

VARIABLES cycles, earnings, expenses, archives, next_id, last, inflight

vars == <<cycles, earnings, expenses, archives, next_id, last, inflight>>

\* ---------------------------------------------------------------- bounds
\* Ids the sequences of the four tables may hand out.
MaxCycles == 3
MaxEarnings == 2
MaxExpenses == 1
MaxArchives == 2
\* Requests that may be in flight at the same time.
MaxRequests == 2
\* Largest magnitude of a running total, in hundredths (the width of the
\* Numeric(10, 2) columns, scaled down).
MaxMoney == 4

\* ------------------------------------------------------ request values
\* A JSON value of a request body: absent key, null, a number, or a value
\* that Decimal()/int() cannot parse.
Absent == [kind |-> "absent", v |-> 0]
Null == [kind |-> "null", v |-> 0]
Bad == [kind |-> "bad", v |-> 0]
Num(n) == [kind |-> "num", v |-> n]

\* Optional column values: None is <<>>, a value v is <<v>>.
None == <<>>
Some(v) == <<v>>
IsSome(o) == o # None
Val(o) == o[1]

\* ------------------------------------------------------------- helpers
Max(a, b) == IF a >= b THEN a ELSE b

RECURSIVE SumAmounts(_)
SumAmounts(S) ==
  IF S = {} THEN 0
  ELSE LET x == CHOOSE y \in S : TRUE IN x.amount + SumAmounts(S \ {x})

\* The permutations of the rows S that are ordered by ascending timestamp
\* (ORDER BY timestamp ASC; the order of rows of equal timestamp is the
\* store's choice).
RECURSIVE OrderedByTimestamp(_)
OrderedByTimestamp(S) ==
  IF S = {} THEN {<<>>}
  ELSE UNION {{<<x>> \o t : t \in OrderedByTimestamp(S \ {x})} :
              x \in {y \in S : \A z \in S : y.timestamp <= z.timestamp}}

\* The request last served and its response: handler, HTTP status, the two
\* request values the handler read (x, y), the id in the path (0 if none)
\* and the id of the cycle in the response body (0 if none).
Response(op, status, x, y, id, ret) ==
  [op |-> op, status |-> status, x |-> x, y |-> y, id |-> id, ret |-> ret]

\* --------------------------------------------------------------- models
\* CurrentCycle(...) with the column defaults.
CurrentCycle(id, gas_cost, start_km, fuel_price, is_active) ==
  [id |-> id, gas_cost |-> gas_cost, start_km |-> start_km, end_km |-> None,
   fuel_price_per_liter |-> fuel_price, is_active |-> is_active,
   cumulative_earnings |-> 0, cumulative_race_count |-> 0,
   current_period_earnings |-> 0, current_period_race_count |-> 0]

Earning(id, cycle_id, amount, timestamp) ==
  [id |-> id, cycle_id |-> cycle_id, timestamp |-> timestamp, amount |-> amount]

Expense(id, cycle_id, amount, timestamp) ==
  [id |-> id, cycle_id |-> cycle_id, timestamp |-> timestamp, amount |-> amount]

\* float() of a Numeric(10, 2) value, in hundredths.
ToFloat(d) == d

Earning_to_dict(e) ==
  [id |-> e.id, cycle_id |-> e.cycle_id, timestamp |-> e.timestamp,
   amount |-> ToFloat(e.amount)]

Expense_to_dict(e) ==
  [id |-> e.id, cycle_id |-> e.cycle_id, timestamp |-> e.timestamp,
   amount |-> ToFloat(e.amount)]

\* cycle.earnings / cycle.expenses: the rows whose cycle_id is the cycle's.
EarningsOf(cycle, es) == {e \in es : e.cycle_id = cycle.id}
ExpensesOf(cycle, xs) == {e \in xs : e.cycle_id = cycle.id}

\* cycle.earnings ordered by descending timestamp.
EarningsListsDescending(cycle, es) ==
  {[i \in 1..Len(s) |-> Earning_to_dict(s[Len(s) + 1 - i])] :
     s \in OrderedByTimestamp({e \in es : e.cycle_id = cycle.id})}

\* cycle.earnings.order_by(timestamp.asc()) as lists of dicts.
EarningsLists(cycle, es) ==
  {[i \in 1..Len(s) |-> Earning_to_dict(s[i])] : s \in OrderedByTimestamp(EarningsOf(cycle, es))}

ExpensesLists(cycle, xs) ==
  {[i \in 1..Len(s) |-> Expense_to_dict(s[i])] : s \in OrderedByTimestamp(ExpensesOf(cycle, xs))}

\* ------------------------------------------------------------- helpers
\* get_active_cycle without its filter: any row.
get_active_cycle_unfiltered(cs) == cs

\* get_active_cycle: the rows filter_by(is_active=True).first() may return
\* (the empty set when it returns None).
get_active_cycle(cs) == {c \in cs : c.is_active}

\* The rows of cs with row c replaced by d.
Update(cs, c, d) == (cs \ {c}) \cup {d}

\* get_or_create_active_cycle: the table after the call.
get_or_create_cycles(cs, nid) ==
  IF get_active_cycle(cs) # {} THEN cs
  ELSE cs \cup {CurrentCycle(nid, 0, None, None, FALSE)}

\* get_or_create_active_cycle: the ids of the rows the call may return.
get_or_create_ids(cs, nid) ==
  IF get_active_cycle(cs) # {} THEN {c.id : c \in get_active_cycle(cs)}
  ELSE {nid}

\* The cycle sequence after get_or_create_active_cycle.
get_or_create_next(cs, nid) ==
  IF get_active_cycle(cs) # {} THEN nid ELSE nid + 1

\* The running totals of the cycle fit their columns.
InRange(cycle) ==
  /\ cycle.cumulative_earnings \in -MaxMoney..MaxMoney
  /\ cycle.current_period_earnings \in -MaxMoney..MaxMoney

\* The handler may run when the cycle id it would need is within the bound.
CanServe(cs) == get_active_cycle(cs) # {} \/ next_id.cycle <= MaxCycles

\* ---------------------------------------------------------------- state
\* The requests being served: a request that has read the active cycle and
\* has not committed yet holds the row as its session loaded it (cycle) and
\* the values of its body.
Requests == 1..MaxRequests

Idle == [pc |-> "idle"]

Init ==
  /\ cycles = {}
  /\ earnings = {}
  /\ expenses = {}
  /\ archives = <<>>
  /\ next_id = [cycle |-> 1, earning |-> 1, expense |-> 1, archive |-> 1]
  /\ last = Response("init", 0, Absent, Absent, 0, 0)
  /\ inflight = [r \in Requests |-> Idle]

\* A request that fails before any write: nothing but the response changes.
Reject(op, status, x, y, id) ==
  /\ last' = Response(op, status, x, y, id, 0)
  /\ UNCHANGED <<cycles, earnings, expenses, archives, next_id, inflight>>

\* GET /api/state
get_app_state ==
  /\ CanServe(cycles)
  /\ cycles' = get_or_create_cycles(cycles, next_id.cycle)
  /\ next_id' = [next_id EXCEPT !.cycle = get_or_create_next(cycles, next_id.cycle)]
  /\ \E ret \in get_or_create_ids(cycles, next_id.cycle) :
       last' = Response("get_app_state", 200, Absent, Absent, 0, ret)
  /\ UNCHANGED <<earnings, expenses, archives, inflight>>

\* start_cycle that leaves the cycle it found active.
DeactivateExistingSkipped(cs) == {cs}

\* start_cycle, lines 93-97: the active cycle found is deactivated.
DeactivateExisting(cs) ==
  IF get_active_cycle(cs) = {} THEN {cs}
  ELSE {Update(cs, c, [c EXCEPT !.is_active = FALSE]) : c \in get_active_cycle(cs)}

\* POST /api/cycles/start
start_cycle(gas, km, fuel) ==
  IF gas.kind = "bad" THEN Reject("start_cycle", 400, gas, km, 0)
  ELSE IF (IF gas.kind = "num" THEN gas.v ELSE 0) <= 0
  THEN Reject("start_cycle", 400, gas, km, 0)
  ELSE IF km.kind = "bad" \/ fuel.kind = "bad"
  THEN Reject("start_cycle", 500, gas, km, 0)
  ELSE
    /\ next_id.cycle <= MaxCycles
    /\ LET start_km == IF km.kind = "num" /\ km.v # 0 THEN Some(km.v) ELSE None
           fuel_price == IF fuel.kind = "num" /\ fuel.v # 0 THEN Some(fuel.v) ELSE None
           new_cycle == CurrentCycle(next_id.cycle, gas.v, start_km, fuel_price, TRUE)
       IN /\ \E cs \in DeactivateExisting(cycles) : cycles' = cs \cup {new_cycle}
          /\ next_id' = [next_id EXCEPT !.cycle = @ + 1]
          /\ last' = Response("start_cycle", 201, gas, km, 0, new_cycle.id)
          /\ UNCHANGED <<earnings, expenses, archives, inflight>>

\* add_earning that adds the amount to the period total instead of setting it.
AddTotalsIncremented(cycle, amount, new_period_total) ==
  [cycle EXCEPT
     !.current_period_earnings = @ + amount,
     !.cumulative_earnings = @ + amount,
     !.current_period_race_count = IF amount > 0 THEN @ + 1 ELSE @,
     !.cumulative_race_count = IF amount > 0 THEN @ + 1 ELSE @]

\* add_earning that sets the cumulative total to the period total.
AddTotalsCumulativeSet(cycle, amount, new_period_total) ==
  [cycle EXCEPT
     !.current_period_earnings = new_period_total,
     !.cumulative_earnings = new_period_total,
     !.current_period_race_count = IF amount > 0 THEN @ + 1 ELSE @,
     !.cumulative_race_count = IF amount > 0 THEN @ + 1 ELSE @]

\* add_earning, lines 225-230: the totals after the new amount.
AddTotals(cycle, amount, new_period_total) ==
  [cycle EXCEPT
     !.current_period_earnings = new_period_total,
     !.cumulative_earnings = @ + amount,
     !.current_period_race_count = IF amount > 0 THEN @ + 1 ELSE @,
     !.cumulative_race_count = IF amount > 0 THEN @ + 1 ELSE @]

\* add_earning that records a row only for a positive amount.
AddRowPositiveOnly(es, cycle, amount, timestamp) ==
  IF amount <= 0 THEN es
  ELSE es \cup {Earning(next_id.earning, cycle.id, amount, timestamp)}

\* add_earning, lines 214-222: the rows after the request (none is added for
\* a negative amount).
AddRow(es, cycle, amount, timestamp) ==
  IF amount < 0 THEN es
  ELSE es \cup {Earning(next_id.earning, cycle.id, amount, timestamp)}

\* POST /api/earnings
add_earning(amount, new_period_total, timestamp) ==
  IF get_active_cycle(cycles) = {}
  THEN Reject("add_earning", 400, amount, new_period_total, 0)
  ELSE IF amount.kind = "absent" \/ new_period_total.kind = "absent"
  THEN Reject("add_earning", 400, amount, new_period_total, 0)
  ELSE IF amount.kind # "num" \/ new_period_total.kind # "num"
  THEN Reject("add_earning", 400, amount, new_period_total, 0)
  ELSE \E cycle \in get_active_cycle(cycles) :
    /\ amount.v >= 0 => next_id.earning <= MaxEarnings
    /\ InRange(AddTotals(cycle, amount.v, new_period_total.v))
    /\ earnings' = AddRow(earnings, cycle, amount.v, timestamp)
    /\ cycles' = Update(cycles, cycle, AddTotals(cycle, amount.v, new_period_total.v))
    /\ next_id' = [next_id EXCEPT !.earning = IF amount.v >= 0 THEN @ + 1 ELSE @]
    /\ last' = Response("add_earning", 200, amount, new_period_total,
                        IF amount.v >= 0 THEN next_id.earning ELSE 0, cycle.id)
    /\ UNCHANGED <<expenses, archives, inflight>>

\* The UPDATE a commit issues for a cycle its session loaded as loaded and
\* changed to changed: the columns whose value was changed are written to
\* the row as it is in the table then (row); the others are left.
Flush(row, loaded, changed) ==
  [row EXCEPT
     !.current_period_earnings =
        IF changed.current_period_earnings # loaded.current_period_earnings
        THEN changed.current_period_earnings ELSE @,
     !.cumulative_earnings =
        IF changed.cumulative_earnings # loaded.cumulative_earnings
        THEN changed.cumulative_earnings ELSE @,
     !.current_period_race_count =
        IF changed.current_period_race_count # loaded.current_period_race_count
        THEN changed.current_period_race_count ELSE @,
     !.cumulative_race_count =
        IF changed.cumulative_race_count # loaded.cumulative_race_count
        THEN changed.cumulative_race_count ELSE @]

\* POST /api/earnings served next to other requests, lines 199-210: the
\* request r loads the active cycle and reads its body.
add_earning_read(r, amount, new_period_total, timestamp) ==
  /\ inflight[r] = Idle
  /\ IF get_active_cycle(cycles) = {}
     THEN Reject("add_earning", 400, amount, new_period_total, 0)
     ELSE IF amount.kind # "num" \/ new_period_total.kind # "num"
     THEN Reject("add_earning", 400, amount, new_period_total, 0)
     ELSE \E cycle \in get_active_cycle(cycles) :
       /\ inflight' = [inflight EXCEPT ![r] =
            [pc |-> "read", cycle |-> cycle, amount |-> amount.v,
             new_period_total |-> new_period_total.v, timestamp |-> timestamp]]
       /\ UNCHANGED <<cycles, earnings, expenses, archives, next_id, last>>

\* POST /api/earnings served next to other requests, lines 214-237: the
\* request r adds its row, changes the totals of the cycle it loaded and
\* commits.
add_earning_commit(r) ==
  /\ inflight[r] # Idle
  /\ LET q == inflight[r]
         changed == AddTotals(q.cycle, q.amount, q.new_period_total)
     IN \E row \in {c \in cycles : c.id = q.cycle.id} :
          /\ q.amount >= 0 => next_id.earning <= MaxEarnings
          /\ InRange(Flush(row, q.cycle, changed))
          /\ earnings' = AddRow(earnings, q.cycle, q.amount, q.timestamp)
          /\ cycles' = Update(cycles, row, Flush(row, q.cycle, changed))
          /\ next_id' = [next_id EXCEPT !.earning = IF q.amount >= 0 THEN @ + 1 ELSE @]
          /\ last' = Response("add_earning", 200, Num(q.amount), Num(q.new_period_total),
                              IF q.amount >= 0 THEN next_id.earning ELSE 0, row.id)
          /\ inflight' = [inflight EXCEPT ![r] = Idle]
          /\ UNCHANGED <<expenses, archives>>

\* edit_earning that adjusts the cumulative total only.
EditTotalsCumulativeOnly(cycle, old_amount, new_amount) ==
  [cycle EXCEPT !.cumulative_earnings = @ + (new_amount - old_amount)]

\* edit_earning that adjusts the period total only.
EditTotalsPeriodOnly(cycle, old_amount, new_amount) ==
  [cycle EXCEPT !.current_period_earnings = @ + (new_amount - old_amount)]

\* edit_earning, lines 264-273: the cycle after the amount changed.
EditTotals(cycle, old_amount, new_amount) ==
  [cycle EXCEPT
     !.cumulative_earnings = @ + (new_amount - old_amount),
     !.current_period_earnings = @ + (new_amount - old_amount)]

\* PUT /api/earnings/<id>
edit_earning(earning_id, amount) ==
  IF get_active_cycle(cycles) = {}
  THEN Reject("edit_earning", 400, amount, Absent, earning_id)
  ELSE \E cycle \in get_active_cycle(cycles) :
    LET found == {e \in EarningsOf(cycle, earnings) : e.id = earning_id} IN
    IF found = {} THEN Reject("edit_earning", 404, amount, Absent, earning_id)
    ELSE IF amount.kind # "num" THEN Reject("edit_earning", 400, amount, Absent, earning_id)
    ELSE IF amount.v < 0 THEN Reject("edit_earning", 400, amount, Absent, earning_id)
    ELSE \E earning \in found :
      /\ InRange(EditTotals(cycle, earning.amount, amount.v))
      /\ earnings' = Update(earnings, earning, [earning EXCEPT !.amount = amount.v])
      /\ cycles' = Update(cycles, cycle, EditTotals(cycle, earning.amount, amount.v))
      /\ last' = Response("edit_earning", 200, amount, Absent, earning_id, cycle.id)
      /\ UNCHANGED <<expenses, archives, next_id, inflight>>

\* delete_earning without lines 306-307 (the race counts are not floored).
DeleteTotalsCountsNotFloored(cycle, amount_deleted) ==
  [cycle EXCEPT
     !.cumulative_earnings = Max(0, @ - amount_deleted),
     !.current_period_earnings = Max(0, @ - amount_deleted),
     !.cumulative_race_count = @ - 1,
     !.current_period_race_count = @ - 1]

\* delete_earning without lines 304-305 (the earnings are not floored).
DeleteTotalsEarningsNotFloored(cycle, amount_deleted) ==
  [cycle EXCEPT
     !.cumulative_earnings = @ - amount_deleted,
     !.current_period_earnings = @ - amount_deleted,
     !.cumulative_race_count = Max(0, @ - 1),
     !.current_period_race_count = Max(0, @ - 1)]

\* delete_earning without line 307 (the period's race count is kept).
DeleteTotalsCumulativeCountOnly(cycle, amount_deleted) ==
  [cycle EXCEPT
     !.cumulative_earnings = Max(0, @ - amount_deleted),
     !.current_period_earnings = Max(0, @ - amount_deleted),
     !.cumulative_race_count = Max(0, @ - 1)]

\* delete_earning, lines 298-307: the cycle after the row of amount_deleted
\* is gone.
DeleteTotals(cycle, amount_deleted) ==
  [cycle EXCEPT
     !.cumulative_earnings = Max(0, @ - amount_deleted),
     !.current_period_earnings = Max(0, @ - amount_deleted),
     !.cumulative_race_count = Max(0, @ - 1),
     !.current_period_race_count = Max(0, @ - 1)]

\* DELETE /api/earnings/<id>
delete_earning(earning_id) ==
  IF get_active_cycle(cycles) = {}
  THEN Reject("delete_earning", 400, Absent, Absent, earning_id)
  ELSE \E cycle \in get_active_cycle(cycles) :
    LET found == {e \in EarningsOf(cycle, earnings) : e.id = earning_id} IN
    IF found = {} THEN Reject("delete_earning", 404, Absent, Absent, earning_id)
    ELSE \E earning \in found :
      /\ earnings' = earnings \ {earning}
      /\ cycles' = Update(cycles, cycle, DeleteTotals(cycle, earning.amount))
      /\ last' = Response("delete_earning", 200, Num(earning.amount), Absent, earning_id, cycle.id)
      /\ UNCHANGED <<expenses, archives, next_id, inflight>>

\* POST /api/expenses
add_expense(amount, timestamp) ==
  IF get_active_cycle(cycles) = {}
  THEN Reject("add_expense", 400, amount, Absent, 0)
  ELSE IF amount.kind # "num" THEN Reject("add_expense", 400, amount, Absent, 0)
  ELSE IF amount.v <= 0 THEN Reject("add_expense", 400, amount, Absent, 0)
  ELSE \E cycle \in get_active_cycle(cycles) :
    /\ next_id.expense <= MaxExpenses
    /\ expenses' = expenses \cup {Expense(next_id.expense, cycle.id, amount.v, timestamp)}
    /\ next_id' = [next_id EXCEPT !.expense = @ + 1]
    /\ last' = Response("add_expense", 201, amount, Absent, next_id.expense, cycle.id)
    /\ UNCHANGED <<cycles, earnings, archives, inflight>>

\* DELETE /api/expenses/<id>
delete_expense(expense_id) ==
  IF get_active_cycle(cycles) = {}
  THEN Reject("delete_expense", 400, Absent, Absent, expense_id)
  ELSE \E cycle \in get_active_cycle(cycles) :
    LET found == {e \in ExpensesOf(cycle, expenses) : e.id = expense_id} IN
    IF found = {} THEN Reject("delete_expense", 404, Absent, Absent, expense_id)
    ELSE \E expense \in found :
      /\ expenses' = expenses \ {expense}
      /\ last' = Response("delete_expense", 200, Absent, Absent, expense_id, cycle.id)
      /\ UNCHANGED <<cycles, earnings, archives, next_id, inflight>>

\* archive_period, line 403: sum(Decimal(exp['amount'])) over the dicts of
\* the expenses.  The amounts of the dicts are floats, and Decimal(float) is
\* the float's binary expansion: the sum is the sum of the amounts plus the
\* representation errors of the floats, which is not the sum of the amounts
\* when that sum is not a multiple of 0.25 (a sum of binary fractions is a
\* binary fraction).  hundredths is the sum of the amounts, inexact tells
\* that the Decimal differs from it (by less than 10^-15).
TotalOtherExpenses(expenses_list) ==
  LET total == SumAmounts({expenses_list[i] : i \in 1..Len(expenses_list)})
  IN [hundredths |-> total, inexact |-> total % 25 # 0]

\* archive_period, line 404: the profit so far, from the cumulative total,
\* the gas cost and every expense of the cycle (a Decimal).
ProfitSnapshot(cycle, expenses_list) ==
  [hundredths |-> cycle.cumulative_earnings - cycle.gas_cost
                    - TotalOtherExpenses(expenses_list).hundredths,
   inexact |-> TotalOtherExpenses(expenses_list).inexact]

\* float(profit_snapshot), line 416: the double nearest to the Decimal.  An
\* inexact Decimal whose hundredths are 0 is a non-zero double (about
\* 2 * 10^-19 for one expense of 0.01).  For the other profits of this
\* model (at most two expenses of 0.01, totals below 0.07) the error is
\* below half the spacing of the doubles and float() returns the double of
\* the hundredths.
ProfitToFloat(profit) ==
  [hundredths |-> profit.hundredths,
   inexact |-> profit.inexact /\ profit.hundredths = 0]

\* archive_period, lines 407-417: the document of a partial archive (its
\* archiveType is written here without the accent of the source string).
PartialPayload(cycle, earnings_details_list, expenses_list) ==
  [archiveType |-> "Periodo Parcial",
   periodEarnings |-> ToFloat(cycle.current_period_earnings),
   periodRaceCount |-> cycle.current_period_race_count,
   earningsDetails |-> earnings_details_list,
   gasCostSnapshot |-> ToFloat(cycle.gas_cost),
   cycleProfitSnapshot |-> ProfitToFloat(ProfitSnapshot(cycle, expenses_list))]

\* archive_period that resets the period totals only.
ResetTotalsPeriodOnly(cycle) ==
  [cycle EXCEPT
     !.current_period_earnings = 0,
     !.current_period_race_count = 0]

\* archive_period, lines 424-432: the cycle after its period was archived.
ResetTotals(cycle) ==
  [cycle EXCEPT
     !.current_period_earnings = 0,
     !.current_period_race_count = 0,
     !.cumulative_earnings = 0,
     !.cumulative_race_count = 0]

\* Archive(archive_data=..., archive_date=utcnow()): rows are kept in the
\* order of their archive_date.
Archive(id, archive_data) == [id |-> id, archive_data |-> archive_data]

\* Archive.to_dict: the stored document together with the row's db_id.
Archive_to_dict(a) == [db_id |-> a.id, data |-> a.archive_data]

\* Archive.query.order_by(archive_date.desc()) as a list of dicts.
ArchivesList(as) == [i \in 1..Len(as) |-> Archive_to_dict(as[Len(as) + 1 - i])]

\* archive_period that refuses only totals below 0.
NothingToArchiveBelowZero(cycle) ==
  cycle.current_period_earnings < 0 /\ cycle.current_period_race_count < 0

\* archive_period, line 390: the period holds nothing to archive.
NothingToArchive(cycle) ==
  cycle.current_period_earnings <= 0 /\ cycle.current_period_race_count <= 0

\* POST /api/archives/period
archive_period ==
  IF get_active_cycle(cycles) = {}
  THEN Reject("archive_period", 400, Absent, Absent, 0)
  ELSE \E cycle \in get_active_cycle(cycles) :
    IF NothingToArchive(cycle)
    THEN Reject("archive_period", 400, Absent, Absent, 0)
    ELSE
      /\ next_id.archive <= MaxArchives
      /\ \E earnings_details_list \in EarningsLists(cycle, earnings),
            expenses_list \in ExpensesLists(cycle, expenses) :
           archives' = Append(archives,
             Archive(next_id.archive,
                     PartialPayload(cycle, earnings_details_list, expenses_list)))
      /\ earnings' = earnings \ EarningsOf(cycle, earnings)
      /\ cycles' = Update(cycles, cycle, ResetTotals(cycle))
      /\ next_id' = [next_id EXCEPT !.archive = @ + 1]
      /\ last' = Response("archive_period", 200, Absent, Absent, next_id.archive, cycle.id)
      /\ UNCHANGED <<expenses, inflight>>

\* GET /api/archives
get_archives ==
  /\ last' = Response("get_archives", 200, Absent, Absent, Len(ArchivesList(archives)), 0)
  /\ UNCHANGED <<cycles, earnings, expenses, archives, next_id, inflight>>

\* finalize_cycle that reports the end odometer as the distance.
KmDrivenFromEnd(cycle) ==
  IF IsSome(cycle.end_km) THEN Val(cycle.end_km) ELSE 0

\* finalize_cycle, line 140: the distance driven.
KmDriven(cycle) ==
  IF IsSome(cycle.start_km) /\ IsSome(cycle.end_km) /\ Val(cycle.end_km) >= Val(cycle.start_km)
  THEN Val(cycle.end_km) - Val(cycle.start_km)
  ELSE 0

\* finalize_cycle, lines 152-170: the document of a full archive (cycle is
\* the cycle with end_km set).
FullPayload(cycle, earnings_list, expenses_list) ==
  [archiveType |-> "Ciclo Completo",
   cycleEarnings |-> ToFloat(cycle.cumulative_earnings),
   gasCost |-> ToFloat(cycle.gas_cost),
   expensesList |-> expenses_list,
   cycleRaceCount |-> cycle.cumulative_race_count,
   startKM |-> cycle.start_km,
   endKM |-> cycle.end_km,
   fuelPricePerLiter |->
     IF IsSome(cycle.fuel_price_per_liter) /\ Val(cycle.fuel_price_per_liter) # 0
     THEN Some(ToFloat(Val(cycle.fuel_price_per_liter))) ELSE None,
   summary_totalOtherExpenses |->
     ToFloat(SumAmounts({expenses_list[i] : i \in 1..Len(expenses_list)})),
   summary_profit |-> ProfitToFloat(ProfitSnapshot(cycle, expenses_list)),
   summary_kmDriven |-> KmDriven(cycle),
   earningsDetails |-> earnings_list]

\* finalize_cycle, line 128: the end_km of the request, or the cycle's
\* start_km when the request has none.
EndKm(cycle, end_km) == IF end_km.kind = "num" THEN Some(end_km.v) ELSE cycle.start_km

\* finalize_cycle with the comparison of line 129 reversed.
EndBeforeStartReversed(cycle, end_km) ==
  IsSome(cycle.start_km) /\ Val(end_km) > Val(cycle.start_km)

\* finalize_cycle, line 129: the end is before the start.
EndBeforeStart(cycle, end_km) ==
  IsSome(cycle.start_km) /\ Val(end_km) < Val(cycle.start_km)

\* POST /api/cycles/finalize
finalize_cycle(end_km) ==
  IF get_active_cycle(cycles) = {}
  THEN Reject("finalize_cycle", 400, end_km, Absent, 0)
  ELSE IF end_km.kind = "bad" THEN Reject("finalize_cycle", 400, end_km, Absent, 0)
  ELSE \E cycle \in get_active_cycle(cycles) :
    IF EndBeforeStart(cycle, EndKm(cycle, end_km))
    THEN Reject("finalize_cycle", 400, end_km, Absent, 0)
    ELSE
      LET ended == [cycle EXCEPT !.end_km = EndKm(cycle, end_km)]
          closed == Update(cycles, cycle, [ended EXCEPT !.is_active = FALSE])
      IN /\ next_id.archive <= MaxArchives
         /\ get_active_cycle(closed) # {} \/ next_id.cycle <= MaxCycles
         /\ \E earnings_list \in EarningsLists(cycle, earnings),
               expenses_list \in ExpensesLists(cycle, expenses) :
              archives' = Append(archives,
                Archive(next_id.archive, FullPayload(ended, earnings_list, expenses_list)))
         /\ cycles' = get_or_create_cycles(closed, next_id.cycle)
         /\ next_id' = [next_id EXCEPT
                          !.archive = @ + 1,
                          !.cycle = get_or_create_next(closed, next_id.cycle)]
         /\ \E ret \in get_or_create_ids(closed, next_id.cycle) :
              last' = Response("finalize_cycle", 200, end_km, Absent, next_id.archive, ret)
         /\ UNCHANGED <<earnings, expenses, inflight>>

\* The list s without its rows of the given id.
RECURSIVE WithoutId(_, _)
WithoutId(s, id) ==
  IF s = <<>> THEN <<>>
  ELSE IF Head(s).id = id THEN WithoutId(Tail(s), id)
  ELSE <<Head(s)>> \o WithoutId(Tail(s), id)

\* delete_archive with the adjustment that lines 454-458 leave commented
\* out: the totals of a deleted partial archive are added to the active
\* cycle.
delete_archive_adding_back(archive_id) ==
  IF \A i \in 1..Len(archives) : archives[i].id # archive_id
  THEN Reject("delete_archive", 404, Absent, Absent, archive_id)
  ELSE
    /\ archives' = WithoutId(archives, archive_id)
    /\ last' = Response("delete_archive", 200, Absent, Absent, archive_id, 0)
    /\ \E i \in 1..Len(archives) :
         /\ archives[i].id = archive_id
         /\ LET data == archives[i].archive_data IN
            IF get_active_cycle(cycles) # {} /\ data.archiveType = "Periodo Parcial"
            THEN \E cycle \in get_active_cycle(cycles) :
                   cycles' = Update(cycles, cycle,
                     [cycle EXCEPT
                        !.cumulative_earnings = @ + data.periodEarnings,
                        !.cumulative_race_count = @ + data.periodRaceCount])
            ELSE UNCHANGED cycles
    /\ UNCHANGED <<earnings, expenses, next_id, inflight>>

\* DELETE /api/archives/<id>
delete_archive(archive_id) ==
  IF \A i \in 1..Len(archives) : archives[i].id # archive_id
  THEN Reject("delete_archive", 404, Absent, Absent, archive_id)
  ELSE
    /\ archives' = WithoutId(archives, archive_id)
    /\ last' = Response("delete_archive", 200, Absent, Absent, archive_id, 0)
    /\ UNCHANGED <<cycles, earnings, expenses, next_id, inflight>>

\* update_cycle_fields, lines 495-497: gas_cost applied.
PatchGasCost(cycle, gas) ==
  IF gas.kind = "num" THEN [cycle EXCEPT !.gas_cost = gas.v] ELSE cycle

\* update_cycle_fields, lines 498-500: fuel_price applied.
PatchFuelPrice(cycle, fuel) ==
  IF fuel.kind = "num" THEN [cycle EXCEPT !.fuel_price_per_liter = Some(fuel.v)]
  ELSE IF fuel.kind = "null" THEN [cycle EXCEPT !.fuel_price_per_liter = None]
  ELSE cycle

\* update_cycle_fields, lines 501-506: start_km applied.
PatchStartKm(cycle, km) ==
  IF km.kind = "num" THEN [cycle EXCEPT !.start_km = Some(km.v)]
  ELSE IF km.kind = "null" THEN [cycle EXCEPT !.start_km = None]
  ELSE cycle

\* update_cycle_fields, lines 507-512: end_km applied.
PatchEndKm(cycle, km) ==
  IF km.kind = "num" THEN [cycle EXCEPT !.end_km = Some(km.v)]
  ELSE IF km.kind = "null" THEN [cycle EXCEPT !.end_km = None]
  ELSE cycle

\* update_cycle_fields, line 503: the new start is after the end.
StartAfterEnd(cycle, km) ==
  km.kind = "num" /\ IsSome(cycle.end_km) /\ km.v > Val(cycle.end_km)

\* update_cycle_fields, line 509: the new end is before the start.
EndBeforeStartKm(cycle, km) ==
  km.kind = "num" /\ IsSome(cycle.start_km) /\ km.v < Val(cycle.start_km)

\* update_cycle_fields that compares the new end_km with the start_km the
\* cycle had before the request.
PatchRejectedAgainstOldStart(cycle, gas, fuel, start_km, end_km) ==
  LET c2 == PatchFuelPrice(PatchGasCost(cycle, gas), fuel)
  IN \/ gas.kind \in {"null", "bad"}
     \/ fuel.kind = "bad"
     \/ start_km.kind = "bad"
     \/ StartAfterEnd(c2, start_km)
     \/ end_km.kind = "bad"
     \/ EndBeforeStartKm(c2, end_km)

\* update_cycle_fields, lines 494-524: the request is answered 400, by an
\* early return or by the except clause (Decimal(None), Decimal("x") and
\* int("x") raise).
PatchRejected(cycle, gas, fuel, start_km, end_km) ==
  LET c2 == PatchFuelPrice(PatchGasCost(cycle, gas), fuel)
      c3 == PatchStartKm(c2, start_km)
  IN \/ gas.kind \in {"null", "bad"}
     \/ fuel.kind = "bad"
     \/ start_km.kind = "bad"
     \/ StartAfterEnd(c2, start_km)
     \/ end_km.kind = "bad"
     \/ EndBeforeStartKm(c3, end_km)

\* update_cycle_fields: the row that is committed.
Patched(cycle, gas, fuel, start_km, end_km) ==
  PatchEndKm(PatchStartKm(PatchFuelPrice(PatchGasCost(cycle, gas), fuel), start_km), end_km)

\* update_cycle_fields that commits, when an odometer check fails, the
\* fields it has assigned before the check.
update_cycle_fields_committing_assigned(gas, fuel, start_km, end_km) ==
  IF get_active_cycle(cycles) = {}
  THEN Reject("update_cycle_fields", 400, start_km, end_km, 0)
  ELSE IF gas.kind = "absent" /\ fuel.kind = "absent"
          /\ start_km.kind = "absent" /\ end_km.kind = "absent"
  THEN Reject("update_cycle_fields", 400, start_km, end_km, 0)
  ELSE \E cycle \in get_active_cycle(cycles) :
    LET c2 == PatchFuelPrice(PatchGasCost(cycle, gas), fuel)
        c3 == PatchStartKm(c2, start_km)
    IN IF gas.kind \in {"null", "bad"} \/ fuel.kind = "bad" \/ start_km.kind = "bad"
       THEN Reject("update_cycle_fields", 400, start_km, end_km, 0)
       ELSE IF StartAfterEnd(c2, start_km)
       THEN /\ cycles' = Update(cycles, cycle, c2)
            /\ last' = Response("update_cycle_fields", 400, start_km, end_km, 0, 0)
            /\ UNCHANGED <<earnings, expenses, archives, next_id, inflight>>
       ELSE IF end_km.kind = "bad"
       THEN Reject("update_cycle_fields", 400, start_km, end_km, 0)
       ELSE IF EndBeforeStartKm(c3, end_km)
       THEN /\ cycles' = Update(cycles, cycle, c3)
            /\ last' = Response("update_cycle_fields", 400, start_km, end_km, 0, 0)
            /\ UNCHANGED <<earnings, expenses, archives, next_id, inflight>>
       ELSE
         /\ cycles' = Update(cycles, cycle, Patched(cycle, gas, fuel, start_km, end_km))
         /\ last' = Response("update_cycle_fields", 200, start_km, end_km, 0, cycle.id)
         /\ UNCHANGED <<earnings, expenses, archives, next_id, inflight>>

\* PUT /api/cycles/current
update_cycle_fields(gas, fuel, start_km, end_km) ==
  IF get_active_cycle(cycles) = {}
  THEN Reject("update_cycle_fields", 400, start_km, end_km, 0)
  ELSE IF gas.kind = "absent" /\ fuel.kind = "absent"
          /\ start_km.kind = "absent" /\ end_km.kind = "absent"
  THEN Reject("update_cycle_fields", 400, start_km, end_km, 0)
  ELSE \E cycle \in get_active_cycle(cycles) :
    IF PatchRejected(cycle, gas, fuel, start_km, end_km)
    THEN Reject("update_cycle_fields", 400, start_km, end_km, 0)
    ELSE
      /\ cycles' = Update(cycles, cycle, Patched(cycle, gas, fuel, start_km, end_km))
      /\ last' = Response("update_cycle_fields", 200, start_km, end_km, 0, cycle.id)
      /\ UNCHANGED <<earnings, expenses, archives, next_id, inflight>>

\* reset_database without Archive.query.delete().
reset_database_keeping_archives ==
  /\ next_id.cycle <= MaxCycles
  /\ earnings' = {}
  /\ expenses' = {}
  /\ cycles' = get_or_create_cycles({}, next_id.cycle)
  /\ next_id' = [next_id EXCEPT !.cycle = get_or_create_next({}, next_id.cycle)]
  /\ last' = Response("reset_database", 200, Absent, Absent, 0, 0)
  /\ UNCHANGED <<archives, inflight>>

\* POST /api/reset
reset_database ==
  /\ next_id.cycle <= MaxCycles
  /\ earnings' = {}
  /\ expenses' = {}
  /\ archives' = <<>>
  /\ cycles' = get_or_create_cycles({}, next_id.cycle)
  /\ next_id' = [next_id EXCEPT !.cycle = get_or_create_next({}, next_id.cycle)]
  /\ last' = Response("reset_database", 200, Absent, Absent, 0, 0)
  /\ UNCHANGED inflight

\* ------------------------------------------------------- specifications
\* Every operation of the API, on a small set of request values.
Next ==
  \/ get_app_state
  \/ \E gas \in {Bad, Num(0), Num(5)} : start_cycle(gas, Absent, Absent)
  \/ \E a \in {Bad, Num(1)} : add_earning(a, Num(1), 1)
  \/ \E id \in 1..MaxEarnings : edit_earning(id, Num(2))
  \/ \E id \in 1..MaxEarnings : delete_earning(id)
  \/ add_expense(Num(1), 1)
  \/ \E id \in 1..MaxExpenses : delete_expense(id)
  \/ archive_period
  \/ get_archives
  \/ finalize_cycle(Absent)
  \/ \E id \in 1..MaxArchives : delete_archive(id)
  \/ update_cycle_fields(Num(4), Absent, Absent, Absent)
  \/ reset_database

Spec == Init /\ [][Next]_vars

\* One cycle is started and its earnings are recorded, corrected and
\* deleted, on a larger set of amounts, totals and timestamps.
NextEarnings ==
  \/ get_app_state
  \/ cycles = {} /\ start_cycle(Num(5), Absent, Absent)
  \/ \E a \in {Num(-1), Num(0), Num(1), Num(2)}, t \in {Num(-1), Num(1), Num(3)},
        ts \in {1} : add_earning(a, t, ts)
  \/ \E id \in 1..MaxEarnings, a \in {Num(-1), Num(0), Num(3)} : edit_earning(id, a)
  \/ \E id \in 1..MaxEarnings : delete_earning(id)

SpecEarnings == Init /\ [][NextEarnings]_vars

\* One cycle is started; its earnings and expenses are recorded and its
\* periods archived.
NextArchive ==
  \/ cycles = {} /\ start_cycle(Num(1), Absent, Absent)
  \/ \E a \in {Num(0), Num(2)}, ts \in {1, 2} : add_earning(a, Num(2), ts)
  \/ add_earning(Num(0), Num(-1), 1)
  \/ \E id \in 1..MaxEarnings : edit_earning(id, Num(1))
  \/ \E id \in 1..MaxEarnings : delete_earning(id)
  \/ add_expense(Num(1), 1)
  \/ archive_period
  \/ get_archives

SpecArchive == Init /\ [][NextArchive]_vars

\* One cycle is started, patched and finalized on a larger set of odometer
\* and cost values; an earning and an expense may be recorded.
NextFields ==
  \/ get_app_state
  \/ cycles = {} /\ \E km \in {Absent, Num(0), Num(1), Num(2)} : start_cycle(Num(5), km, Num(2))
  \/ add_earning(Num(1), Num(1), 1)
  \/ add_expense(Num(1), 1)
  \/ \E gas \in {Absent, Bad, Num(-1)}, fuel \in {Absent, Null},
        skm \in {Absent, Null, Num(0), Num(2)}, ekm \in {Absent, Null, Bad, Num(1)} :
       update_cycle_fields(gas, fuel, skm, ekm)
  \/ \E km \in {Absent, Bad, Num(0), Num(1), Num(2)} : finalize_cycle(km)

SpecFields == Init /\ [][NextFields]_vars

\* One cycle is started and requests to add an earning are served next to
\* each other: each loads the cycle and commits later.
NextConcurrent ==
  \/ cycles = {} /\ start_cycle(Num(5), Absent, Absent)
  \/ \E r \in Requests, a \in {Num(1), Num(2)}, t \in {Num(1), Num(3)} :
       add_earning_read(r, a, t, 1)
  \/ \E r \in Requests : add_earning_commit(r)

SpecConcurrent == Init /\ [][NextConcurrent]_vars

\* --------------------------------------------------------------- claims
\* The active cycle before and after a step (the handlers keep its id).
Totals(c) ==
  <<c.cumulative_earnings, c.current_period_earnings,
    c.cumulative_race_count, c.current_period_race_count>>

Counts(c) == <<c.cumulative_race_count, c.current_period_race_count>>

\* The cycle is as start_cycle leaves it: no earning, all totals 0.
JustStarted(cycle) ==
  Totals(cycle) = <<0, 0, 0, 0>> /\ EarningsOf(cycle, earnings) = {}

\* The cycle is as start_cycle and one add_earning of a non-negative amount
\* leave it: the earning is its only one, the cumulative total is the
\* earning's amount and a ride is counted if the amount is positive (the
\* period total is whatever the request supplied).
AfterStartAndOneAdd(cycle, earning) ==
  /\ EarningsOf(cycle, earnings) = {earning}
  /\ cycle.cumulative_earnings = earning.amount
  /\ Counts(cycle) = IF earning.amount > 0 THEN <<1, 1>> ELSE <<0, 0>>

\* The tables a request may write.
store == <<cycles, earnings, expenses, archives, next_id>>

\* C1: in every reachable state at most one Cycle row has is_active = TRUE.
C1_AtMostOneActive == Cardinality(get_active_cycle(cycles)) <= 1

\* A start has found a cycle active (started, never finalized) and has
\* deactivated it.
C1_Witness ==
  /\ last.op = "start_cycle" /\ last.status = 201
  /\ next_id.archive = 1
  /\ \E c \in cycles : ~c.is_active /\ c.gas_cost > 0
  /\ \E c \in cycles : c.is_active /\ c.id = last.ret

\* C2: after any sequence of add, edit and delete earning on a started
\* cycle, both race counts of every cycle are >= 0.
C2_RaceCountsNonNegative ==
  \A c \in cycles : c.cumulative_race_count >= 0 /\ c.current_period_race_count >= 0

\* A row of amount 0, which never incremented a counter, has been deleted
\* while both counts were 0.
C2_Witness ==
  /\ last.op = "delete_earning" /\ last.status = 200 /\ last.x = Num(0)
  /\ \E c \in cycles : c.is_active /\ Counts(c) = <<0, 0>>
  /\ earnings = {}

\* C3: cumulative_earnings and current_period_earnings of every cycle are
\* never below 0.
C3_EarningsNonNegative ==
  \A c \in cycles : c.cumulative_earnings >= 0 /\ c.current_period_earnings >= 0

\* C4: get_or_create_active_cycle, as called by GET /api/state, returns the
\* same cycle id when called twice with no write in between, and creates a
\* Cycle row only when the table holds none.
C4_GetOrCreateIdempotent ==
  [][last'.op = "get_app_state" =>
       /\ last.op = "get_app_state" => last'.ret = last.ret
       /\ cycles' # cycles => cycles = {}]_vars

\* C5: after a successful archive_period, GET /api/archives lists a partial
\* archive whose earningsDetails holds exactly the Earning rows the active
\* cycle owned before the call, with their amounts, by ascending timestamp.
C5_ArchiveKeepsEarnings ==
  [][(last'.op = "archive_period" /\ last'.status = 200) =>
       \E cycle \in get_active_cycle(cycles) :
         \E i \in 1..Len(ArchivesList(archives')) :
           LET doc == ArchivesList(archives')[i]
               details == doc.data.earningsDetails
               owned == {e \in earnings : e.cycle_id = cycle.id}
           IN /\ doc.db_id = last'.id
              /\ doc.data.archiveType = "Periodo Parcial"
              /\ Len(details) = Cardinality(owned)
              /\ {details[k] : k \in 1..Len(details)} =
                   {[id |-> e.id, cycle_id |-> e.cycle_id,
                     timestamp |-> e.timestamp, amount |-> e.amount] : e \in owned}
              /\ \A j, k \in 1..Len(details) :
                   j < k => details[j].timestamp <= details[k].timestamp]_vars

\* A period has been archived whose two earnings were recorded out of
\* timestamp order (the later row carries the earlier timestamp).
C5_Witness ==
  /\ last.op = "archive_period" /\ last.status = 200
  /\ Len(archives) = 1
  /\ LET details == archives[1].archive_data.earningsDetails
     IN /\ Len(details) = 2
        /\ details[1].id > details[2].id
        /\ details[1].timestamp < details[2].timestamp
        /\ details[1].amount # details[2].amount

\* C6: add earning with amount d > 0 and new_period_total p on an active
\* cycle adds exactly one Earning row of amount d owned by the cycle, adds d
\* to cumulative_earnings, sets current_period_earnings to p and adds 1 to
\* both race counts; right after start, add(d, d) leaves both earnings
\* totals at d and both counts at 1.
C6_AddPositive ==
  [][(last'.op = "add_earning" /\ last'.x.kind = "num" /\ last'.y.kind = "num"
      /\ last'.x.v > 0 /\ get_active_cycle(cycles) # {}) =>
       /\ last'.status = 200
       /\ \E cycle \in get_active_cycle(cycles), after \in get_active_cycle(cycles') :
            /\ after.id = cycle.id
            /\ after.cumulative_earnings = cycle.cumulative_earnings + last'.x.v
            /\ after.current_period_earnings = last'.y.v
            /\ after.cumulative_race_count = cycle.cumulative_race_count + 1
            /\ after.current_period_race_count = cycle.current_period_race_count + 1
            /\ \E e \in earnings' :
                 /\ e \notin earnings
                 /\ earnings' = earnings \cup {e}
                 /\ e.amount = last'.x.v
                 /\ e.cycle_id = cycle.id
            /\ (JustStarted(cycle) /\ last'.y.v = last'.x.v) =>
                 Totals(after) = <<last'.x.v, last'.x.v, 1, 1>>]_vars

\* A positive amount has been added with a period total that differs from
\* the previous period total plus the amount.
C6_Witness ==
  /\ last.op = "add_earning" /\ last.status = 200 /\ last.x.v > 0
  /\ \E c \in cycles :
       /\ c.is_active
       /\ c.current_period_earnings = last.y.v
       /\ c.cumulative_earnings > c.current_period_earnings
       /\ c.cumulative_race_count = 2

\* C7: an add earning with a negative amount creates no Earning row and
\* leaves both race counts; with amount 0 it creates a row of amount 0 and
\* leaves both race counts; only a positive amount increments them.
C7_AmountSign ==
  [][(last'.op = "add_earning" /\ last'.status = 200) =>
       \E cycle \in get_active_cycle(cycles), after \in get_active_cycle(cycles') :
         /\ after.id = cycle.id
         /\ last'.x.v < 0 => earnings' = earnings /\ Counts(after) = Counts(cycle)
         /\ last'.x.v = 0 =>
              /\ Counts(after) = Counts(cycle)
              /\ \E e \in earnings' :
                   e \notin earnings /\ earnings' = earnings \cup {e} /\ e.amount = 0
         /\ Counts(after) # Counts(cycle) =>
              /\ last'.x.v > 0
              /\ Counts(after) = <<cycle.cumulative_race_count + 1,
                                   cycle.current_period_race_count + 1>>]_vars

\* An amount of 0 has been added: its row exists and no ride was counted.
C7_Witness ==
  /\ last.op = "add_earning" /\ last.status = 200 /\ last.x = Num(0)
  /\ \E e \in earnings : e.id = last.id /\ e.amount = 0
  /\ \E c \in cycles : c.is_active /\ Counts(c) = <<0, 0>>

\* C8: edit earning with a new amount >= 0 on an Earning of the active cycle
\* sets the row's amount, adds (new - old) to cumulative_earnings and to
\* current_period_earnings and changes neither race count nor any other
\* row; a new amount < 0 is rejected and changes nothing.
C8_Edit ==
  [][(last'.op = "edit_earning" /\ last'.x.kind = "num") =>
       \A cycle \in get_active_cycle(cycles) :
         \A earning \in {e \in earnings : e.id = last'.id /\ e.cycle_id = cycle.id} :
           IF last'.x.v < 0
           THEN last'.status = 400 /\ UNCHANGED store
           ELSE /\ last'.status = 200
                /\ earnings' = (earnings \ {earning})
                                 \cup {[earning EXCEPT !.amount = last'.x.v]}
                /\ \E after \in cycles' :
                     /\ cycles' = (cycles \ {cycle}) \cup {after}
                     /\ after.cumulative_earnings =
                          cycle.cumulative_earnings + (last'.x.v - earning.amount)
                     /\ after.current_period_earnings =
                          cycle.current_period_earnings + (last'.x.v - earning.amount)
                     /\ after = [cycle EXCEPT
                                   !.cumulative_earnings = after.cumulative_earnings,
                                   !.current_period_earnings = after.current_period_earnings]
                /\ UNCHANGED <<expenses, archives, next_id>>]_vars

\* An earning has been edited to an amount no add request supplies, while
\* another earning exists.
C8_Witness ==
  /\ last.op = "edit_earning" /\ last.status = 200 /\ last.x = Num(3)
  /\ \E e \in earnings : e.id = last.id /\ e.amount = 3
  /\ \E e \in earnings : e.id # last.id
  /\ \E c \in cycles : c.is_active /\ c.cumulative_earnings # c.current_period_earnings

\* The effect of delete earning on the totals and the rows, as C9 states it.
DeleteEffect(cycle, earning) ==
  /\ last'.status = 200
  /\ earnings' = earnings \ {earning}
  /\ \E after \in cycles' :
       /\ cycles' = (cycles \ {cycle}) \cup {after}
       /\ after.id = cycle.id
       /\ after.cumulative_earnings = Max(0, cycle.cumulative_earnings - earning.amount)
       /\ after.current_period_earnings =
            Max(0, cycle.current_period_earnings - earning.amount)
       /\ after.cumulative_race_count = Max(0, cycle.cumulative_race_count - 1)
       /\ after.current_period_race_count = Max(0, cycle.current_period_race_count - 1)

\* C9 as stated: delete earning removes exactly the row and floors the four
\* totals at 0 after subtracting; after start, one add and the delete of
\* that earning, all four totals are 0.
C9_DeleteAsStated ==
  [][last'.op = "delete_earning" =>
       \A cycle \in get_active_cycle(cycles) :
         \A earning \in {e \in earnings : e.id = last'.id /\ e.cycle_id = cycle.id} :
           /\ DeleteEffect(cycle, earning)
           /\ AfterStartAndOneAdd(cycle, earning) =>
                \A after \in get_active_cycle(cycles') : Totals(after) = <<0, 0, 0, 0>>]_vars

\* C9 amended: as above, and after start, one add whose new_period_total
\* does not exceed its amount, and the delete of that earning, all four
\* totals are 0.
C9_Delete ==
  [][last'.op = "delete_earning" =>
       \A cycle \in get_active_cycle(cycles) :
         \A earning \in {e \in earnings : e.id = last'.id /\ e.cycle_id = cycle.id} :
           /\ DeleteEffect(cycle, earning)
           /\ (AfterStartAndOneAdd(cycle, earning)
               /\ cycle.current_period_earnings <= earning.amount) =>
                \A after \in get_active_cycle(cycles') : Totals(after) = <<0, 0, 0, 0>>]_vars

\* The only earning ever recorded has been deleted and the four totals are
\* back at 0.
C9_Witness ==
  /\ last.op = "delete_earning" /\ last.status = 200 /\ last.x.v > 0
  /\ next_id.earning = 2
  /\ earnings = {}
  /\ \E c \in cycles : c.is_active /\ Totals(c) = <<0, 0, 0, 0>>

\* C10: finalize with an end_km below the active cycle's start_km answers
\* 400, creates no Archive and leaves every Cycle, Earning and Expense row
\* as it was (the cycle stays active).
C10_FinalizeBelowStart ==
  [][last'.op = "finalize_cycle" =>
       \A cycle \in get_active_cycle(cycles) :
         (last'.x.kind = "num" /\ IsSome(cycle.start_km)
          /\ last'.x.v < Val(cycle.start_km)) =>
           /\ last'.status = 400
           /\ UNCHANGED store
           /\ cycle \in cycles' /\ cycle.is_active]_vars

\* A finalize below the start has been refused for a cycle that owns an
\* earning and an expense.
C10_Witness ==
  /\ last.op = "finalize_cycle" /\ last.status = 400 /\ last.x.kind = "num"
  /\ \E c \in cycles :
       /\ c.is_active /\ IsSome(c.start_km) /\ last.x.v < Val(c.start_km)
       /\ \E e \in earnings : e.cycle_id = c.id
       /\ \E e \in expenses : e.cycle_id = c.id
  /\ archives = <<>>

\* C11: a successful finalize with end_km = e on an active cycle whose
\* start_km is absent or at most e adds exactly one Archive, of type "Ciclo
\* Completo" and with summary_kmDriven = e - start_km (0 when start_km is
\* absent), sets the cycle's is_active to FALSE and leaves no cycle active.
C11_Finalize ==
  [][(last'.op = "finalize_cycle" /\ last'.status = 200 /\ last'.x.kind = "num") =>
       \E cycle \in get_active_cycle(cycles) :
         /\ IsSome(cycle.start_km) => Val(cycle.start_km) <= last'.x.v
         /\ Len(archives') = Len(archives) + 1
         /\ SubSeq(archives', 1, Len(archives)) = archives
         /\ LET doc == archives'[Len(archives')].archive_data
            IN /\ doc.archiveType = "Ciclo Completo"
               /\ doc.summary_kmDriven =
                    IF IsSome(cycle.start_km) THEN last'.x.v - Val(cycle.start_km) ELSE 0
         /\ \E c \in cycles' : c.id = cycle.id /\ ~c.is_active /\ c.end_km = Some(last'.x.v)
         /\ get_active_cycle(cycles') = {}]_vars

\* A cycle started at 1 km has been finalized at 2 km: the archive reports
\* 1 km driven and no cycle is active.
C11_Witness ==
  /\ last.op = "finalize_cycle" /\ last.status = 200 /\ last.x = Num(2)
  /\ Len(archives) = 1
  /\ archives[1].archive_data.archiveType = "Ciclo Completo"
  /\ archives[1].archive_data.startKM = Some(1)
  /\ archives[1].archive_data.summary_kmDriven = 1
  /\ get_active_cycle(cycles) = {}

\* C12: a successful archive_period adds exactly one Archive, of type
\* "Periodo Parcial", deletes every Earning row of the active cycle, sets
\* its four totals to 0, keeps it active and leaves its other columns
\* (gas_cost, start_km, end_km, fuel price) and every Expense row unchanged.
C12_ArchivePeriod ==
  [][(last'.op = "archive_period" /\ last'.status = 200) =>
       \E cycle \in get_active_cycle(cycles) :
         /\ Len(archives') = Len(archives) + 1
         /\ SubSeq(archives', 1, Len(archives)) = archives
         /\ archives'[Len(archives')].archive_data.archiveType = "Periodo Parcial"
         /\ earnings' = {e \in earnings : e.cycle_id # cycle.id}
         /\ \E after \in cycles' :
              /\ cycles' = (cycles \ {cycle}) \cup {after}
              /\ Totals(after) = <<0, 0, 0, 0>>
              /\ after.is_active
              /\ after = [cycle EXCEPT
                            !.cumulative_earnings = 0,
                            !.current_period_earnings = 0,
                            !.cumulative_race_count = 0,
                            !.current_period_race_count = 0]
         /\ expenses' = expenses]_vars

\* A period with two earnings has been archived while the cycle owns an
\* expense: the earnings are gone, the totals are 0, the expense remains.
C12_Witness ==
  /\ last.op = "archive_period" /\ last.status = 200
  /\ Len(archives[Len(archives)].archive_data.earningsDetails) = 2
  /\ archives[Len(archives)].archive_data.periodRaceCount > 0
  /\ earnings = {}
  /\ \E c \in cycles :
       /\ c.is_active /\ Totals(c) = <<0, 0, 0, 0>>
       /\ \E e \in expenses : e.cycle_id = c.id

\* C13: the cycleProfitSnapshot stored by archive_period is
\* cumulative_earnings - gas_cost - (the sum of the amounts of every Expense
\* row of the cycle), all read before the reset; expenses recorded before an
\* earlier archive_period of the cycle are included.
C13_ProfitSnapshot ==
  [][(last'.op = "archive_period" /\ last'.status = 200) =>
       \E cycle \in get_active_cycle(cycles) :
         archives'[Len(archives')].archive_data.cycleProfitSnapshot =
           [hundredths |-> cycle.cumulative_earnings - cycle.gas_cost
                             - SumAmounts(ExpensesOf(cycle, expenses)),
            inexact |-> FALSE]]_vars

\* C14: archive_period on an active cycle whose current_period_earnings and
\* current_period_race_count are both <= 0 is refused, creates no Archive
\* and changes no row; an archive_period that directly follows a successful
\* one is refused.
C14_NothingToArchive ==
  [][last'.op = "archive_period" =>
       /\ \A cycle \in get_active_cycle(cycles) :
            (cycle.current_period_earnings <= 0
             /\ cycle.current_period_race_count <= 0) =>
              last'.status = 400 /\ UNCHANGED store
       /\ (last.op = "archive_period" /\ last.status = 200) =>
            last'.status = 400 /\ UNCHANGED store]_vars

\* A period has been archived and the archive_period that followed it was
\* refused: one archive exists and the cycle is still active.
C14_Witness ==
  /\ last.op = "archive_period" /\ last.status = 400
  /\ Len(archives) = 1
  /\ next_id.archive = 2
  /\ earnings = {}
  /\ \E c \in cycles : c.is_active /\ Totals(c) = <<0, 0, 0, 0>>

\* C15: after reset_database, from any reachable state, the store holds no
\* Earning, no Expense and no Archive row and exactly one Cycle row, which
\* is inactive and has its four totals at 0.
C15_Reset ==
  last.op = "reset_database" =>
    /\ earnings = {}
    /\ expenses = {}
    /\ archives = <<>>
    /\ Cardinality(cycles) = 1
    /\ \A c \in cycles : ~c.is_active /\ Totals(c) = <<0, 0, 0, 0>>

\* A store that held two cycles, an earning, an expense and an archive has
\* been reset.
C15_Witness ==
  /\ last.op = "reset_database"
  /\ next_id.cycle > 3
  /\ next_id.earning > 1 /\ next_id.expense > 1 /\ next_id.archive > 1
  /\ Cardinality(cycles) = 1

\* C16: add_expense, delete_expense and delete_archive change no cycle's
\* four totals or is_active and no Earning row, also when the deleted
\* archive is a partial one and a cycle is active.
C16_ExpensesAndArchivesFrame ==
  [][last'.op \in {"add_expense", "delete_expense", "delete_archive"} =>
       /\ {<<c.id, Totals(c), c.is_active>> : c \in cycles'} =
            {<<c.id, Totals(c), c.is_active>> : c \in cycles}
       /\ earnings' = earnings]_vars

\* The partial archive of the first cycle has been deleted while that cycle
\* is active and has an earning again.
C16_Witness ==
  /\ last.op = "delete_archive" /\ last.status = 200
  /\ archives = <<>> /\ next_id.archive = 2
  /\ \E c \in cycles :
       /\ c.is_active /\ c.id = 1
       /\ c.cumulative_race_count > 0
       /\ \E e \in earnings : e.cycle_id = c.id

\* C17: when no cycle is active (empty table, only inactive cycles, or after
\* a finalize), each of finalize_cycle, update_cycle_fields, add_earning,
\* edit_earning, delete_earning, add_expense, delete_expense and
\* archive_period answers with an error and leaves every row of the four
\* tables unchanged, creating no Cycle row.
C17_NoActiveCycle ==
  [][((\A c \in cycles : ~c.is_active)
      /\ last'.op \in {"finalize_cycle", "update_cycle_fields", "add_earning",
                       "edit_earning", "delete_earning", "add_expense",
                       "delete_expense", "archive_period"}) =>
       last'.status >= 400 /\ UNCHANGED store]_vars

\* After a finalize that left an earning and an expense behind, a request
\* to delete that earning has been refused for want of an active cycle.
C17_Witness ==
  /\ last.op = "delete_earning" /\ last.status = 400
  /\ \A c \in cycles : ~c.is_active
  /\ \E i \in 1..Len(archives) : archives[i].archive_data.archiveType = "Ciclo Completo"
  /\ \E e \in earnings : e.id = last.id
  /\ expenses # {}

\* C18: after a successful finalize_cycle no Earning row and no Expense row
\* of the finalized cycle remains in the store.
C18_FinalizeDeletesChildren ==
  [][(last'.op = "finalize_cycle" /\ last'.status = 200) =>
       \A cycle \in get_active_cycle(cycles) :
         /\ EarningsOf(cycle, earnings') = {}
         /\ ExpensesOf(cycle, expenses') = {}]_vars

\* C19: in every reachable state the gas_cost of every cycle is >= 0 and the
\* gas_cost of an active cycle is > 0, whatever gas_cost the patches of
\* update_cycle_fields carry.
C19_GasCostPositive ==
  \A c \in cycles : c.gas_cost >= 0 /\ (c.is_active => c.gas_cost > 0)

\* C20: for every cycle in every reachable state, if start_km and end_km are
\* both present then end_km >= start_km, after any sequence of start_cycle,
\* update_cycle_fields (with start_km, end_km, both, or null) and
\* finalize_cycle.
C20_EndKmNotBelowStartKm ==
  \A c \in cycles :
    (IsSome(c.start_km) /\ IsSome(c.end_km)) => Val(c.end_km) >= Val(c.start_km)

\* A patch of both odometers has been accepted: the active cycle has both
\* present, the end above the start.
C20_Witness ==
  /\ last.op = "update_cycle_fields" /\ last.status = 200
  /\ last.x = Num(0) /\ last.y = Num(1)
  /\ \E c \in cycles :
       c.is_active /\ c.start_km = Some(0) /\ c.end_km = Some(1)

\* C21: update_cycle_fields is all-or-nothing: when a patch is refused for
\* an odometer bound or an invalid value, no column of the cycle changes in
\* the store, including the gas_cost, fuel price or start_km of the same
\* patch that were assigned before the failing check.
C21_PatchAllOrNothing ==
  [][(last'.op = "update_cycle_fields" /\ last'.status = 400) =>
       UNCHANGED store]_vars

\* A patch of start_km = 2 and end_km = 1 has been refused at the end_km
\* check, after its start_km was assigned: the stored start_km is not 2.
C21_Witness ==
  /\ last.op = "update_cycle_fields" /\ last.status = 400
  /\ last.x = Num(2) /\ last.y = Num(1)
  /\ \E c \in cycles :
       /\ c.is_active
       /\ c.start_km = Some(1)
       /\ c.end_km = None

\* C22: two add_earning requests with positive amounts that both load the
\* cycle before either commits can lose an update (both rows exist, the
\* cumulative total has grown by one amount only and the race counts by 1);
\* a request that commits on the totals it loaded (as every request does
\* when requests run one at a time) adds its row, its amount to the
\* cumulative total and 1 to both race counts.
C22_LostUpdateOnlyWhenStale ==
  [][\A r \in Requests :
       (inflight[r] # Idle /\ inflight'[r] = Idle) =>
         \E row \in cycles, after \in cycles' :
           /\ row.id = inflight[r].cycle.id /\ after.id = row.id
           /\ \E e \in earnings' :
                /\ e \notin earnings /\ earnings' = earnings \cup {e}
                /\ e.amount = inflight[r].amount /\ e.cycle_id = row.id
           /\ Totals(row) = Totals(inflight[r].cycle) =>
                /\ after.cumulative_earnings =
                     row.cumulative_earnings + inflight[r].amount
                /\ Counts(after) = <<row.cumulative_race_count + 1,
                                     row.current_period_race_count + 1>>]_vars

\* Two requests of different amounts have both committed after both had
\* loaded the cycle: two rows exist, one amount is in the cumulative total
\* and one ride is counted.
C22_Witness ==
  /\ \A r \in Requests : inflight[r] = Idle
  /\ \E c \in cycles :
       /\ c.is_active
       /\ \E e1, e2 \in EarningsOf(c, earnings) :
            /\ e1.id # e2.id /\ e1.amount # e2.amount
            /\ c.cumulative_earnings = e2.amount
            /\ EarningsOf(c, earnings) = {e1, e2}
       /\ Counts(c) = <<1, 1>>

\* C23: finalize_cycle on an active cycle with an absent or invalid end_km
\* does not fail: it takes the cycle's start_km as end_km (also over an
\* end_km set by update_cycle_fields), adds the archive with
\* summary_kmDriven = 0 and deactivates the cycle.
C23_FinalizeDefaultsEndKm ==
  [][(last'.op = "finalize_cycle" /\ last'.x.kind \in {"absent", "bad"}
      /\ get_active_cycle(cycles) # {}) =>
       /\ last'.status = 200
       /\ \E cycle \in get_active_cycle(cycles) :
            /\ Len(archives') = Len(archives) + 1
            /\ archives'[Len(archives')].archive_data.summary_kmDriven = 0
            /\ archives'[Len(archives')].archive_data.endKM = cycle.start_km
            /\ \E c \in cycles' :
                 c.id = cycle.id /\ ~c.is_active /\ c.end_km = cycle.start_km]_vars

\* The cumulative totals of the active cycle are the totals of its rows.
TotalsFromRows ==
  \A c \in get_active_cycle(cycles) :
    /\ c.cumulative_earnings = SumAmounts(EarningsOf(c, earnings))
    /\ c.cumulative_race_count = Cardinality(EarningsOf(c, earnings))

\* The request just served was an add_earning of an amount of 0 or less.
AddedNoRide ==
  last'.op = "add_earning" /\ last'.status = 200 /\ last'.x.v <= 0

\* C24 as stated: in every reachable state cumulative_earnings of the active
\* cycle is the sum of the amounts of its Earning rows and
\* cumulative_race_count is the number of those rows.
C24_TotalsFromRowsAsStated == TotalsFromRows

\* C24: every request other than an add_earning of an amount of 0 or less
\* keeps the cumulative totals of the active cycle equal to the sum and the
\* number of its Earning rows; an add_earning of 0 adds a row that is not
\* counted and one of a negative amount lowers the total without a row, so
\* either one ends the agreement.
C24_TotalsFromRows ==
  [][TotalsFromRows => (TotalsFromRows' <=> ~AddedNoRide)]_vars

\* Two additions, one of them edited, left two rows and agreeing totals.
C24_Witness ==
  \E c \in get_active_cycle(cycles) :
    /\ {e.amount : e \in EarningsOf(c, earnings)} = {1, 2}
    /\ c.cumulative_earnings = 3
    /\ c.cumulative_race_count = 2

\* The earnings totals of every cycle are equal.
EarningsTotalsEqual ==
  \A c \in cycles : c.cumulative_earnings = c.current_period_earnings

\* The request just served was an add_earning whose new_period_total is the
\* period total before it plus its amount.
AddedConsistently ==
  \A c \in get_active_cycle(cycles) :
    last'.y.v = c.current_period_earnings + last'.x.v

\* C25: cumulative_race_count = current_period_race_count for every cycle
\* in every reachable state; a request that finds the two earnings totals
\* of every cycle equal leaves them equal unless it is an add_earning whose
\* new_period_total is not the previous period total plus the amount, and
\* such an add_earning leaves them different.
C25_PeriodIsCycle ==
  /\ [](\A c \in cycles : c.cumulative_race_count = c.current_period_race_count)
  /\ [][EarningsTotalsEqual =>
         (EarningsTotalsEqual' <=>
            ~(last'.op = "add_earning" /\ last'.status = 200 /\ ~AddedConsistently))]_vars

\* After a period was archived, an addition with a consistent total and an
\* edit of its row left equal totals and counts.
C25_Witness ==
  /\ Len(archives) = 1
  /\ \E c \in get_active_cycle(cycles) :
       /\ {e.amount : e \in EarningsOf(c, earnings)} = {1}
       /\ Totals(c) = <<1, 1, 1, 1>>
====
